---------------------------- MODULE Spec2Model ----------------------------
(***************************************************************************)
(* The Assistants-API-to-git mapping of aider/api/impl/assistants_api_base *)
(* as a state machine.  The state is the one git clone every request       *)
(* shares (branch heads, HEAD, index, working tree), the remote "origin",  *)
(* and the position of each request handler.  Every git command and every  *)
(* file operation of a handler is one step, so that handlers running in    *)
(* two server workers on the same clone can interleave.                    *)
(*                                                                         *)
(* Strings are sequences of one-character strings, so that the regular     *)
(* expression, the prefixing and the prefix test are computed.             *)
(***************************************************************************)
EXTENDS Integers, Sequences, FiniteSets, TLC

\* ------------------------------------------------------------- bounds
\* Calls one worker makes in the sequential specification.
MaxOps == 2
\* Calls each of the two workers makes in the concurrent specification.
MaxConcurrentOps == 1
\* Commits another clone pushes to origin's default branch.
MaxRemote == 1

\* ------------------------------------------------------------ strings
S_main  == <<"m", "a", "i", "n">>
S_aider == <<"a", "i", "d", "e", "r">>
S_work  == <<"w">>
S_slash == <<"/">>
S_T     == <<"T">>
S_U     == <<"U">>
S_a     == <<"a">>
S_o     == <<"o">>

\* The characters of the model's strings that [a-zA-Z0-9_] accepts.
IdentChars == {"a", "d", "e", "i", "m", "n", "o", "r", "w", "T", "U", "X", "1", "_"}

\* The pattern without its anchors: any string has a match.
ReMatchUnanchored(s) == TRUE

\* re.match(r"^[a-zA-Z0-9_]*$", s): every character is in the class; the
\* empty string matches.
ReMatch(s) == \A i \in 1..Len(s) : s[i] \in IdentChars

\* str.startswith
StartsWith(s, pre) == Len(s) >= Len(pre) /\ SubSeq(s, 1, Len(pre)) = pre

\* f"aider/{name}"
ThreadBranch(name) == S_aider \o S_slash \o name

\* ------------------------------------------------------------- paths
\* A path is <<kind, name>>.
HistFile(name)  == <<"threads", name>>       \* .aider/threads/{name}.chat.history.md
ConfPath(id)    == <<"assistants", id>>      \* .aider/assistants/{id}.conf.yml
InstrFile(id)   == <<"instructions", id>>    \* .aider/instructions/{id}.md
SettingsFile    == <<"settings", <<>>>>      \* .aider.model.settings.yml
ExternFile      == <<"extern", <<>>>>        \* a file other clones change

\* A tree (a commit's, the index, the working tree) is a function from the
\* paths it holds to their content; Get wraps the content so that an absent
\* path compares with a present one.
Get(f, p) == IF p \in DOMAIN f THEN <<f[p]>> ELSE <<>>
Put(f, p, c) == [q \in DOMAIN f \cup {p} |-> IF q = p THEN c ELSE f[q]]
EmptyTree == [p \in {} |-> <<>>]


\* ------------------------------------------------------------- state
Workers == {1, 2}

VARIABLES
    AIDER_MAIN_BRANCH,  \* os.getenv("AIDER_MAIN_BRANCH", "aider"), read at import
    commits,            \* the object store: commit id -> [parent, tree]
    heads,              \* REPO.heads: local branch name -> commit id
    HEAD,               \* the branch checked out
    index,              \* REPO.index: the staged tree
    wt,                 \* the working tree's files
    dirs,               \* the working tree's directories at file paths
    origin,             \* ORIGIN: branch name -> commit id on the remote
    nRemote,            \* commits other clones have pushed so far
    pc,                 \* per worker: the handler's position
    req,                \* per worker: the request being handled
    msg,                \* per worker: create_message's arguments
    queue,              \* per worker: create_thread's messages still to add
    loc,                \* per worker: the handler's local variables
    res,                \* per worker: what the last call returned or raised
    ncalls,             \* per worker: calls made
    entry,              \* per worker: the repository as the call found it
    did,                \* per worker: the repository steps the call has made
    returned,           \* the message records returned: <<thread_id, commit>>
    creation,           \* the thread-creation commits: <<name, commit>>
    args,               \* prune_models: entry files, files to prune, dry_run
    files,              \* prune_models: the files there are, with their imports
    graph,              \* prune_models: the dependency graph
    reachable_nodes,    \* prune_models: the nodes found reachable
    to_remove,          \* prune_models: the files listed as unused
    prune_pc            \* prune_models: the script's position

repoVars == <<commits, heads, HEAD, index, wt, dirs, origin>>
serverVars == <<AIDER_MAIN_BRANCH, commits, heads, HEAD, index, wt, dirs,
                origin, nRemote, pc, req, msg, queue, loc, res, ncalls, entry,
                did, returned, creation>>
pruneVars == <<args, files, graph, reachable_nodes, to_remove, prune_pc>>
vars == <<serverVars, pruneVars>>

DEFAULT_BRANCH == S_main

\* ------------------------------------------------------- git, as data
Tree(c) == IF c = 0 THEN EmptyTree ELSE commits[c].tree
HeadCommit == IF HEAD \in DOMAIN heads THEN heads[HEAD] ELSE 0

\* a is b or an ancestor of b in the commit sequence cs.
RECURSIVE IsAncestor(_, _, _)
IsAncestor(cs, a, b) ==
    IF b = 0 THEN a = 0
    ELSE IF a = b THEN TRUE
    ELSE IsAncestor(cs, a, cs[b].parent)

\* The commits of b's chain that are not on a's chain, oldest first.
RECURSIVE ChainSince(_, _, _)
ChainSince(cs, a, b) ==
    IF b = 0 \/ IsAncestor(cs, b, a) THEN <<>>
    ELSE Append(ChainSince(cs, a, cs[b].parent), b)

AllPaths(fs) == UNION {DOMAIN fs[i] : i \in 1..Len(fs)}

\* git's two-way merge on a switch from tree old to tree new: a path the
\* two trees agree on keeps its local state, any other path must be clean.
SwitchOK(old, new) ==
    \A p \in AllPaths(<<old, new, index, wt>>) :
        \/ Get(old, p) = Get(new, p)
        \/ Get(index, p) = Get(old, p) /\ Get(wt, p) = Get(index, p)

Switched(cur, old, new) ==
    LET keep(p) == Get(old, p) = Get(new, p)
        D == {p \in DOMAIN cur \cup DOMAIN new :
                 IF keep(p) THEN p \in DOMAIN cur ELSE p \in DOMAIN new}
    IN  [p \in D |-> IF keep(p) THEN cur[p] ELSE new[p]]

\* No staged and no unstaged change to a tracked file (untracked files are
\* not looked at): what git rebase requires.
CleanWorkTree ==
    /\ index = Tree(HeadCommit)
    /\ \A p \in DOMAIN index : Get(wt, p) = Get(index, p)

\* One name is a directory of the other in refs/heads.
IsRefDir(a, b) ==
    Len(a) < Len(b) /\ SubSeq(b, 1, Len(a)) = a /\ b[Len(a) + 1] = "/"
RefConflict(name) ==
    \E b \in DOMAIN heads : IsRefDir(b, name) \/ IsRefDir(name, b)

\* The tree of commit c replayed on base: c's changes to its parent, applied.
Replayed(cs, c, base) ==
    LET old == IF cs[c].parent = 0 THEN EmptyTree ELSE cs[cs[c].parent].tree
        new == cs[c].tree
    IN  Switched(base, old, new)

\* The commit sequence after replaying the commits todo on top of commit onto.
RECURSIVE Rebased(_, _, _)
Rebased(cs, todo, onto) ==
    IF todo = <<>> THEN cs
    ELSE Rebased(Append(cs, [parent |-> onto,
                             tree |-> Replayed(cs, Head(todo), cs[onto].tree)]),
                 Tail(todo), Len(cs) + 1)


\* ---------------------------------------------------------- requests
\* CreateMessageRequest: role, content, metadata (supplied or not).
Message(role, content, metadata) ==
    [role |-> role, content |-> content, metadata |-> metadata]
NoMessage == Message("", "", FALSE)

\* One record shape for the three request kinds; a field a kind does not
\* have keeps its blank value.  "" is None (or empty) for a text field.
BlankRequest ==
    [op |-> "", name |-> <<>>, model |-> "", tools |-> FALSE,
     tool_resources |-> FALSE, response_format |-> "", metadata |-> FALSE,
     description |-> FALSE, temperature |-> "None", top_p |-> "",
     instructions |-> "", shape |-> "", messages |-> <<>>,
     thread_id |-> <<>>, message |-> NoMessage, run_id |-> FALSE]

\* CreateAssistantRequest with name and model only, response_format "auto".
AssistantRequest(name) ==
    [BlankRequest EXCEPT !.op = "create_assistant", !.name = name,
                         !.model = "gpt", !.response_format = "auto"]

\* CreateThreadRequest; shape says how much of metadata.name is there.
ThreadRequest(shape, name, messages) ==
    [BlankRequest EXCEPT !.op = "create_thread", !.shape = shape,
                         !.name = name, !.messages = messages]

MessageRequest(thread_id, m) ==
    [BlankRequest EXCEPT !.op = "create_message", !.thread_id = thread_id,
                         !.message = m]

AssistantRequests ==
    {AssistantRequest(n) : n \in {S_a, S_o, <<"a", " ">>, <<>>}}
    \cup {[AssistantRequest(S_a) EXCEPT !.model = ""],
          [AssistantRequest(S_a) EXCEPT !.tools = TRUE],
          [AssistantRequest(S_a) EXCEPT !.tool_resources = TRUE],
          [AssistantRequest(S_a) EXCEPT !.response_format = ""],
          [AssistantRequest(S_a) EXCEPT !.metadata = TRUE],
          [AssistantRequest(S_a) EXCEPT !.description = TRUE],
          [AssistantRequest(S_a) EXCEPT !.temperature = "0.2"],
          [AssistantRequest(S_a) EXCEPT !.top_p = "0.9"],
          [AssistantRequest(S_a) EXCEPT !.instructions = "text"]}

ThreadRequests ==
    {ThreadRequest(sh, <<>>, <<>>) : sh \in {"none", "no_metadata", "no_name"}}
    \cup {ThreadRequest("named", n, <<>>) :
              n \in {S_T, <<"X">>, <<>>, <<"T", "/">>, S_main, ThreadBranch(S_T)}}
    \cup {ThreadRequest("named", S_T, <<Message("user", "x", FALSE)>>),
          ThreadRequest("named", S_T, <<Message("user", "x", FALSE),
                                        Message("assistant", "y", FALSE)>>)}

MessageRequests ==
    {MessageRequest(S_T, Message(r, "x", FALSE)) :
         r \in {"user", "assistant", "system"}}
    \cup {MessageRequest(S_T, Message("user", "y", FALSE)),
          MessageRequest(S_U, Message("user", "y", FALSE)),
          MessageRequest(S_T, Message("user", "x", TRUE)),
          MessageRequest(<<"X">>, Message("user", "x", FALSE)),
          MessageRequest(ThreadBranch(S_T), Message("user", "x", FALSE))}

\* The handlers that are permanently unimplemented.
WontDoOps == {"cancel_run", "modify_run", "modify_assistant"}

\* The queries, none of them implemented yet.
QueryOps ==
    {"get_assistant", "get_message", "get_run", "get_run_step", "get_thread",
     "list_assistants", "list_run_steps", "list_runs"}

\* A request to a handler that looks at none of its arguments.
StubRequest(op) == [BlankRequest EXCEPT !.op = op]

\* list_messages looks at run_id only; create_thread_and_run hands its
\* thread (there or None) to create_thread.
OtherRequests ==
    {StubRequest(op) : op \in WontDoOps \cup QueryOps \cup {"create_run"}}
    \cup {[StubRequest("list_messages") EXCEPT !.run_id = given] :
              given \in BOOLEAN}
    \cup {[ThreadRequest("named", S_T, <<>>) EXCEPT !.op = "create_thread_and_run"],
          [ThreadRequest("none", <<>>, <<>>) EXCEPT !.op = "create_thread_and_run"]}

Requests ==
    AssistantRequests \cup ThreadRequests \cup MessageRequests \cup OtherRequests

\* ---------------------------------------------------------- results
NoResult == [kind |-> "none", code |-> 0, detail |-> "", id |-> 0]
\* raise HTTPException(status_code=code, detail=detail)
HttpError(code, detail) == [kind |-> "http", code |-> code, detail |-> detail, id |-> 0]
\* Any other exception: the server answers 500.
Exception(detail) == [kind |-> "error", code |-> 500, detail |-> detail, id |-> 0]
\* A record returned; id is the commit it names (0 for a ThreadObject).
Returned(id) == [kind |-> "ok", code |-> 200, detail |-> "", id |-> id]

NoLocals == [frame |-> "", name |-> <<>>, model_settings |-> <<>>, commit |-> 0]

Snapshot ==
    [HEAD |-> HEAD, index |-> index, wt |-> wt, dirs |-> dirs,
     heads |-> heads, origin |-> origin, ncommits |-> Len(commits)]

\* ------------------------------------------ scripts/prune_models.py
\* Model files the script is given.
MaxModels == 2

S_pkg    == <<"p", "k", "g">>
S_models == <<"m", "o", "d", "e", "l", "s">>
S_api    == <<"a", "p", "i">>
S_dot    == <<".">>
S_py     == <<".", "p", "y">>

\* The characters of the model's strings that \w rejects.
NonWord == {".", "/"}

StemNames == <<"x", "y", "z", "u">>
Stems == {<<StemNames[i]>> : i \in 1..MaxModels}

\* s[i:].startswith(t)
IsAt(s, i, t) == i + Len(t) - 1 <= Len(s) /\ SubSeq(s, i, i + Len(t) - 1) = t

\* t in s
Contains(s, t) == \E i \in 1..(Len(s) + 1) : IsAt(s, i, t)

Least(S) == CHOOSE i \in S : \A j \in S : i <= j

\* ".".join(parts)
RECURSIVE JoinDots(_)
JoinDots(parts) ==
    IF parts = <<>> THEN <<>>
    ELSE IF Len(parts) = 1 THEN parts[1]
    ELSE parts[1] \o S_dot \o JoinDots(Tail(parts))

\* s.replace(t, "")
RECURSIVE Removed(_, _)
Removed(s, t) ==
    IF s = <<>> THEN <<>>
    ELSE IF IsAt(s, 1, t) THEN Removed(SubSeq(s, Len(t) + 1, Len(s)), t)
    ELSE <<s[1]>> \o Removed(Tail(s), t)

\* s.lstrip(".")
RECURSIVE LStripDots(_)
LStripDots(s) ==
    IF s # <<>> /\ s[1] = "." THEN LStripDots(Tail(s)) ELSE s

\* re.split(r"\bmodels\.?", s, maxsplit=1): the leftmost "models" that starts
\* a word, with the dot after it if there is one, divides s in two.
ReSplit(s) ==
    LET at == {i \in 1..Len(s) :
                  IsAt(s, i, S_models) /\ (i = 1 \/ s[i - 1] \in NonWord)}
    IN  IF at = {} THEN <<s>>
        ELSE LET i == Least(at)
                 j == IF i + 6 <= Len(s) /\ s[i + 6] = "." THEN i + 7 ELSE i + 6
             IN  <<SubSeq(s, 1, i - 1), SubSeq(s, j, Len(s))>>

\* A path is the sequence of its parts.
ModelPath(stem) == <<S_pkg, S_models, stem \o S_py>>
EntryPath == <<S_pkg, S_api, <<"e">> \o S_py>>
ModelPaths == {ModelPath(x) : x \in Stems}

\* An import statement, as ast gives it: the node type, the dotted name
\* (alias.name of an Import, module of an ImportFrom), the name imported
\* from it, the level of a relative import.  imports is the model file the
\* statement makes the importing file depend on.
ImportModule(x) ==      \* import pkg.models.x
    [node |-> "Import", name |-> JoinDots(<<S_pkg, S_models, x>>),
     imported |-> <<>>, level |-> 0, imports |-> ModelPath(x)]
FromModule(x) ==        \* from pkg.models.x import Y
    [node |-> "ImportFrom", name |-> JoinDots(<<S_pkg, S_models, x>>),
     imported |-> <<"Y">>, level |-> 0, imports |-> ModelPath(x)]
FromPackage(x) ==       \* from pkg.models import x
    [node |-> "ImportFrom", name |-> JoinDots(<<S_pkg, S_models>>),
     imported |-> x, level |-> 0, imports |-> ModelPath(x)]
FromSibling(x) ==       \* from .x import Y, in a file of pkg/models
    [node |-> "ImportFrom", name |-> x,
     imported |-> <<"Y">>, level |-> 1, imports |-> ModelPath(x)]

\* What a file holds: no import, or one.
EntrySources ==
    {<<>>} \cup {<<ImportModule(x)>> : x \in Stems}
           \cup {<<FromModule(x)>> : x \in Stems}
           \cup {<<FromPackage(x)>> : x \in Stems}
ModelSources ==
    {<<>>} \cup {<<FromModule(x)>> : x \in Stems}
           \cup {<<FromSibling(x)>> : x \in Stems}

\* The file systems the script is run on: one entry file and the model files.
FileSystems ==
    {[p \in {EntryPath} \cup ModelPaths |->
         IF p = EntryPath THEN e ELSE m[p]] :
        e \in EntrySources, m \in [ModelPaths -> ModelSources]}

NoGraph == [nodes |-> {}, external_refs |-> {}, edges |-> {}]

\* parse_python_imports: an Import gives its name, an ImportFrom its module
\* when it has one; a file that is not there or does not parse gives nothing.
parse_python_imports(fs, file_path) ==
    IF file_path \notin DOMAIN fs THEN {}
    ELSE {<<IF s.node = "Import" THEN "import" ELSE "from", s.name>> :
             s \in {fs[file_path][i] : i \in 1..Len(fs[file_path])}}

module_name_from_path(py_file) ==
    LET at == {i \in 1..Len(py_file) : py_file[i] = S_models}
    IN  IF at = {} THEN <<>>
        ELSE LET post_models == SubSeq(py_file, Least(at) + 1, Len(py_file))
                 n == Len(post_models)
             IN  IF post_models = <<>> THEN S_models
                 ELSE S_models \o S_dot \o
                      JoinDots([post_models EXCEPT ![n] = Removed(@, S_py)])

\* The node an imported name refers to, if any: {} where the loop continues.
FullMod(imp_name) ==
    IF ~Contains(imp_name, S_models) THEN {}
    ELSE LET subpath == ReSplit(imp_name)
         IN  IF Len(subpath) < 2 THEN {}
             ELSE LET remainder == LStripDots(subpath[2])
                  IN  IF remainder # <<>>
                      THEN {S_models \o S_dot \o remainder}
                      ELSE {S_models}

build_dependency_graph(fs, entry_files, model_files) ==
    LET nodes == {module_name_from_path(mf) : mf \in model_files} \ {<<>>}
        refs(f) == UNION {FullMod(imp[2]) : imp \in parse_python_imports(fs, f)}
    IN  [nodes |-> nodes,
         external_refs |-> UNION {refs(ef) : ef \in entry_files} \cap nodes,
         edges |-> UNION {{<<module_name_from_path(mf), to>> :
                              to \in refs(mf) \cap nodes} :
                          mf \in {f \in model_files :
                                     module_name_from_path(f) # <<>>}}]

\* The nodes a depth-first search from the nodes in S finds.
RECURSIVE dfs_tree(_, _)
dfs_tree(g, S) ==
    LET next == S \cup {e[2] : e \in {f \in g.edges : f[1] \in S}}
    IN  IF next = S THEN S ELSE dfs_tree(g, next)

get_reachable_nodes(g) == dfs_tree(g, g.external_refs)

\* The script is not running.
PruneOff ==
    /\ args = [entry_files |-> {}, prune_files |-> {}, dry_run |-> TRUE]
    /\ files = [p \in {} |-> <<>>]
    /\ graph = NoGraph
    /\ reachable_nodes = {}
    /\ to_remove = {}
    /\ prune_pc = "off"

\* main, lines 225-233: the arguments, the checks of the files to prune,
\* the graph.
PM_Build ==
    /\ prune_pc = "main"
    /\ \A file \in args.prune_files :
          file \in DOMAIN files /\ IsAt(file[Len(file)], Len(file[Len(file)]) - 2, S_py)
    /\ graph' = build_dependency_graph(files, args.entry_files, args.prune_files)
    /\ prune_pc' = "reachable"
    /\ UNCHANGED <<serverVars, args, files, reachable_nodes, to_remove>>

\* main, line 236
PM_Reachable ==
    /\ prune_pc = "reachable"
    /\ reachable_nodes' = get_reachable_nodes(graph)
    /\ prune_pc' = "select"
    /\ UNCHANGED <<serverVars, args, files, graph, to_remove>>

\* main, lines 239-257: the unused nodes, their files; with none the script
\* exits.
PM_Select ==
    /\ prune_pc = "select"
    /\ LET unused == graph.nodes \ reachable_nodes
           node_to_path(n) ==
               {mf \in args.prune_files : module_name_from_path(mf) = n}
       IN  to_remove' = UNION {node_to_path(n) : n \in unused}
    /\ prune_pc' = IF to_remove' = {} THEN "done" ELSE "report"
    /\ UNCHANGED <<serverVars, args, files, graph, reachable_nodes>>

\* The removal without the test of the option.
PM_RemoveAlways ==
    /\ prune_pc = "report"
    /\ \E failed \in SUBSET to_remove :
          files' = [p \in DOMAIN files \ (to_remove \ failed) |-> files[p]]
    /\ prune_pc' = "done"
    /\ UNCHANGED <<serverVars, args, graph, reachable_nodes, to_remove>>

\* main, lines 259-272: the list is printed; unless the run is a dry run
\* each file of it is removed, an OSError of os.remove leaving the file.
PM_Remove ==
    /\ prune_pc = "report"
    /\ IF args.dry_run
       THEN files' = files
       ELSE \E failed \in SUBSET to_remove :
               files' = [p \in DOMAIN files \ (to_remove \ failed) |-> files[p]]
    /\ prune_pc' = "done"
    /\ UNCHANGED <<serverVars, args, graph, reachable_nodes, to_remove>>

\* ---------------------------------------------------------- Init
RootTree(registered) ==
    IF registered
    THEN Put(EmptyTree, SettingsFile, <<[name |-> S_o]>>)
    ELSE EmptyTree

\* A clone on which nothing has been called yet.
FreshRepo(work, registered) ==
    /\ AIDER_MAIN_BRANCH = work
    /\ commits = <<[parent |-> 0, tree |-> RootTree(registered)]>>
    /\ heads = (DEFAULT_BRANCH :> 1) @@ (work :> 1)
    /\ origin = (DEFAULT_BRANCH :> 1) @@ (work :> 1)
    /\ HEAD = DEFAULT_BRANCH
    /\ index = RootTree(registered)
    /\ wt = RootTree(registered)
    /\ creation = {}

\* A clone on which threads T and U were created earlier, as create_thread
\* leaves it.
ThreadsRepo(work, registered) ==
    LET t0 == RootTree(registered)
        t1 == Put(t0, HistFile(S_T), <<>>)
        t2 == Put(t1, HistFile(S_U), <<>>)
    IN  /\ AIDER_MAIN_BRANCH = work
        /\ commits = <<[parent |-> 0, tree |-> t0], [parent |-> 1, tree |-> t1],
                       [parent |-> 2, tree |-> t2]>>
        /\ heads = (DEFAULT_BRANCH :> 1) @@ (work :> 3)
                   @@ (ThreadBranch(S_T) :> 1) @@ (ThreadBranch(S_U) :> 2)
        /\ origin = (DEFAULT_BRANCH :> 1) @@ (work :> 3)
        /\ HEAD = work
        /\ index = t2
        /\ wt = t2
        /\ creation = {<<S_T, 2>>, <<S_U, 3>>}

\* No call has been made.
Idle ==
    /\ dirs = {}
    /\ nRemote = 0
    /\ pc = [w \in Workers |-> "idle"]
    /\ req = [w \in Workers |-> BlankRequest]
    /\ msg = [w \in Workers |-> [thread_id |-> <<>>, message |-> NoMessage]]
    /\ queue = [w \in Workers |-> <<>>]
    /\ loc = [w \in Workers |-> NoLocals]
    /\ res = [w \in Workers |-> NoResult]
    /\ ncalls = [w \in Workers |-> 0]
    /\ entry = [w \in Workers |-> Snapshot]
    /\ did = [w \in Workers |-> <<>>]
    /\ returned = <<>>

Init ==
    /\ \E registered \in BOOLEAN :
          \/ \E work \in {S_aider, S_work} : FreshRepo(work, registered)
          \/ ThreadsRepo(S_work, registered)
    /\ Idle
    /\ PruneOff


\* ------------------------------------------------- steps, in general
fixedVars == <<AIDER_MAIN_BRANCH, nRemote, req, ncalls, entry, pruneVars>>

Goto(w, label) ==
    /\ pc' = [pc EXCEPT ![w] = label]
    /\ res' = res

\* The handler ends: it raises, or returns a record.
Finish(w, result) ==
    /\ pc' = [pc EXCEPT ![w] = "done"]
    /\ res' = [res EXCEPT ![w] = result]

Step(w, what) == did' = [did EXCEPT ![w] = Append(@, what)]

\* Where a handler goes on after git_root().
AfterGitRoot(frame) ==
    CASE frame = "create_assistant" -> "ca_exists"
      [] frame = "create_thread"    -> "ct_heads"
      [] frame = "create_message"   -> "cm_checkout"

\* REPO.git.checkout(branch)
Checkout(w, branch, next) ==
    /\ Step(w, "checkout")
    /\ IF branch \in DOMAIN heads
          /\ SwitchOK(Tree(HeadCommit), Tree(heads[branch]))
       THEN /\ HEAD' = branch
            /\ index' = Switched(index, Tree(HeadCommit), Tree(heads[branch]))
            /\ wt' = Switched(wt, Tree(HeadCommit), Tree(heads[branch]))
            /\ Goto(w, next)
       ELSE /\ UNCHANGED <<HEAD, index, wt>>
            /\ Finish(w, Exception("GitCommandError: checkout"))
    /\ UNCHANGED <<commits, heads, dirs, origin, msg, queue, loc, returned,
                   creation, fixedVars>>

\* ORIGIN.pull(): fetch, then fast-forward the checked-out branch to its
\* branch on origin.  It raises when origin cannot be reached, when the
\* branch has no branch on origin, when local changes are in the way and
\* when the two branches have diverged.
Pull(w, next) ==
    /\ Step(w, "pull")
    /\ \E reachable \in BOOLEAN :
          LET mine == HeadCommit
              theirs == IF HEAD \in DOMAIN origin THEN origin[HEAD] ELSE 0
          IN  IF ~reachable \/ theirs = 0 \/ mine = 0
              THEN /\ UNCHANGED <<heads, index, wt>>
                   /\ Finish(w, Exception("GitCommandError: pull"))
              ELSE IF IsAncestor(commits, theirs, mine)
              THEN /\ UNCHANGED <<heads, index, wt>>
                   /\ Goto(w, next)
              ELSE IF IsAncestor(commits, mine, theirs)
                      /\ SwitchOK(Tree(mine), Tree(theirs))
              THEN /\ heads' = [heads EXCEPT ![HEAD] = theirs]
                   /\ index' = Switched(index, Tree(mine), Tree(theirs))
                   /\ wt' = Switched(wt, Tree(mine), Tree(theirs))
                   /\ Goto(w, next)
              ELSE /\ UNCHANGED <<heads, index, wt>>
                   /\ Finish(w, Exception("GitCommandError: pull"))
    /\ UNCHANGED <<commits, HEAD, dirs, origin, msg, queue, loc, returned,
                   creation, fixedVars>>

\* REPO.git.rebase(onto): the checked-out branch's commits that onto lacks
\* are replayed, as new commits, on onto's tip.
Rebase(w, onto, next) ==
    /\ Step(w, "rebase")
    /\ IF ~CleanWorkTree \/ HeadCommit = 0 \/ onto \notin DOMAIN heads
       THEN /\ UNCHANGED <<commits, heads, index, wt>>
            /\ Finish(w, Exception("GitCommandError: rebase"))
       ELSE IF IsAncestor(commits, heads[onto], HeadCommit)
       THEN /\ UNCHANGED <<commits, heads, index, wt>>
            /\ Goto(w, next)
       ELSE LET todo == ChainSince(commits, heads[onto], HeadCommit)
                cs == Rebased(commits, todo, heads[onto])
                tip == IF todo = <<>> THEN heads[onto] ELSE Len(cs)
            IN  /\ commits' = cs
                /\ heads' = [heads EXCEPT ![HEAD] = tip]
                /\ index' = cs[tip].tree
                /\ wt' = Switched(wt, Tree(HeadCommit), cs[tip].tree)
                /\ Goto(w, next)
    /\ UNCHANGED <<HEAD, dirs, origin, msg, queue, loc, returned, creation,
                   fixedVars>>

\* REPO.index.add(items=[path], force=True): the files at the path are
\* staged as they are in the working tree; a directory stages the files
\* under it, and a path that is not there raises.
IndexAdd(tree, path) ==
    IF path \in DOMAIN wt THEN Put(tree, path, wt[path]) ELSE tree
CanAdd(path) == path \in DOMAIN wt \/ path \in dirs

\* REPO.index.commit(message): the index becomes a commit on the branch
\* that is checked out, whichever it is.
Committed(cs, tree) == Append(cs, [parent |-> HeadCommit, tree |-> tree])

\* ORIGIN.push(): the checked-out branch is sent to its branch on origin.
\* GitPython raises when git gave it no result line (origin out of reach,
\* or no branch to push to under the clone's push.default: the handlers
\* choose between the two outcomes, as the clone's configuration is not
\* the program's); a rejected non-fast-forward push is a result line and
\* raises nothing.
PushAccepted ==
    /\ HeadCommit # 0
    /\ HEAD \in DOMAIN origin => IsAncestor(commits, origin[HEAD], HeadCommit)
Pushed == IF PushAccepted
          THEN [b \in DOMAIN origin \cup {HEAD} |->
                   IF b = HEAD THEN HeadCommit ELSE origin[b]]
          ELSE origin

\* ------------------------------------------------------- git_root()
GitRoot1(w) ==
    /\ pc[w] = "git_root_1"
    /\ Checkout(w, DEFAULT_BRANCH, "git_root_2")

\* A pull that fails and puts the branch of the call's start back.
GitRoot2RollsBack(w) ==
    /\ pc[w] = "git_root_2"
    /\ Step(w, "pull")
    /\ HEAD' = entry[w].HEAD
    /\ Finish(w, Exception("GitCommandError: pull"))
    /\ UNCHANGED <<commits, heads, index, wt, dirs, origin, msg, queue, loc,
                   returned, creation, fixedVars>>

GitRoot2(w) ==
    /\ pc[w] = "git_root_2"
    /\ Pull(w, "git_root_3")

GitRoot3(w) ==
    /\ pc[w] = "git_root_3"
    /\ Checkout(w, AIDER_MAIN_BRANCH, "git_root_4")

GitRoot4(w) ==
    /\ pc[w] = "git_root_4"
    /\ Pull(w, "git_root_5")

\* git_root() returning without its rebase.
GitRoot5NoRebase(w) ==
    /\ pc[w] = "git_root_5"
    /\ Step(w, "rebase")
    /\ Goto(w, AfterGitRoot(loc[w].frame))
    /\ UNCHANGED <<repoVars, msg, queue, loc, returned, creation, fixedVars>>

GitRoot5(w) ==
    /\ pc[w] = "git_root_5"
    /\ Rebase(w, DEFAULT_BRANCH, AfterGitRoot(loc[w].frame))

\* Another clone pushes a commit to origin's default branch.  A handler
\* looks at that branch of origin only in git_root()'s first pull, so a push
\* made during a call is taken as one made after it.
RemoteAdvance ==
    /\ nRemote < MaxRemote
    /\ \A w \in Workers : pc[w] \in {"idle", "done"}
    /\ nRemote' = nRemote + 1
    /\ commits' = Append(commits,
                     [parent |-> origin[DEFAULT_BRANCH],
                      tree |-> Put(Tree(origin[DEFAULT_BRANCH]), ExternFile,
                                   <<nRemote + 1>>)])
    /\ origin' = [origin EXCEPT ![DEFAULT_BRANCH] = Len(commits) + 1]
    /\ UNCHANGED <<AIDER_MAIN_BRANCH, heads, HEAD, index, wt, dirs, pc, req,
                   msg, queue, loc, res, ncalls, entry, did, returned,
                   creation, pruneVars>>


\* ----------------------------------------------------------- a call
FirstStep(op) ==
    CASE op = "create_assistant"      -> "ca_validate"
      [] op = "create_thread"         -> "ct_validate"
      [] op = "create_message"        -> "cm_guard"
      [] op = "create_thread_and_run" -> "ct_validate"
      [] op = "create_run"            -> "create_run"
      [] op = "list_messages"         -> "list_messages"
      [] op \in WontDoOps             -> "wont_do"
      [] op \in QueryOps              -> "query"

\* The handler whose body runs first: create_thread_and_run awaits
\* create_thread before anything else.
FirstFrame(op) == IF op = "create_thread_and_run" THEN "create_thread" ELSE op

\* The router hands request r to its handler.
Dispatch(w, r) ==
    /\ pc[w] \in {"idle", "done"}
    /\ req' = [req EXCEPT ![w] = r]
    /\ pc' = [pc EXCEPT ![w] = FirstStep(r.op)]
    /\ res' = [res EXCEPT ![w] = NoResult]
    /\ msg' = [msg EXCEPT ![w] = [thread_id |-> r.thread_id, message |-> r.message]]
    /\ queue' = [queue EXCEPT ![w] = r.messages]
    /\ loc' = [loc EXCEPT ![w] = [NoLocals EXCEPT !.frame = FirstFrame(r.op)]]
    /\ ncalls' = [ncalls EXCEPT ![w] = @ + 1]
    /\ entry' = [entry EXCEPT ![w] = Snapshot]
    /\ did' = [did EXCEPT ![w] = <<>>]
    /\ UNCHANGED <<AIDER_MAIN_BRANCH, nRemote, repoVars, returned, creation,
                   pruneVars>>

Call(w) ==
    /\ ncalls[w] < MaxOps
    /\ \E r \in Requests : Dispatch(w, r)

\* ------------------------------------------------ create_assistant
\* The first check that fails, as its detail; "" when none does.
AssistantValidation(r) ==
    IF r.name = <<>> THEN "name needs to be set, as that will be the id"
    ELSE IF ~ReMatch(r.name) THEN "name must be alphanumeric with underscores"
    ELSE IF r.model = "" THEN "model needs to be set"
    ELSE IF r.tools THEN "tools not supported yet"
    ELSE IF r.tool_resources THEN "tool_resources not supported yet"
    ELSE IF r.response_format # "auto" THEN "only response_format 'auto' supported"
    ELSE IF r.metadata THEN "metadata not supported yet"
    ELSE IF r.description THEN "no way to save a description, put info in name"
    ELSE ""

CA_Validate(w) ==
    /\ pc[w] = "ca_validate"
    /\ IF AssistantValidation(req[w]) # ""
       THEN Finish(w, HttpError(417, AssistantValidation(req[w])))
       ELSE Goto(w, "git_root_1")
    /\ UNCHANGED <<repoVars, msg, queue, loc, did, returned, creation, fixedVars>>

\* Path.exists(): a file or a directory is at the path.
Exists(path) == path \in DOMAIN wt \/ path \in dirs

\* if this_config.exists(): raise
CA_Exists(w) ==
    /\ pc[w] = "ca_exists"
    /\ IF Exists(ConfPath(req[w].name))
       THEN Finish(w, HttpError(417, "id already exists, try again"))
       ELSE Goto(w, "ca_mkdir")
    /\ UNCHANGED <<repoVars, msg, queue, loc, did, returned, creation, fixedVars>>

\* this_config.mkdir(parents=True, exist_ok=True); this_config.touch():
\* the configuration path becomes a directory.
CA_Mkdir(w) ==
    /\ pc[w] = "ca_mkdir"
    /\ Step(w, "mkdir")
    /\ IF ConfPath(req[w].name) \in DOMAIN wt
       THEN /\ dirs' = dirs
            /\ Finish(w, Exception("FileExistsError"))
       ELSE /\ dirs' = dirs \cup {ConfPath(req[w].name)}
            /\ Goto(w, "ca_add")
    /\ UNCHANGED <<commits, heads, HEAD, index, wt, origin, msg, queue, loc,
                   returned, creation, fixedVars>>

\* REPO.index.add(items=[this_config], force=True)
CA_Add(w) ==
    /\ pc[w] = "ca_add"
    /\ Step(w, "add")
    /\ IF CanAdd(ConfPath(req[w].name))
       THEN /\ index' = IndexAdd(index, ConfPath(req[w].name))
            /\ Goto(w, "ca_registry")
       ELSE /\ index' = index
            /\ Finish(w, Exception("FileNotFoundError"))
    /\ UNCHANGED <<commits, heads, HEAD, wt, dirs, origin, msg, queue, loc,
                   returned, creation, fixedVars>>

\* yaml.safe_load(model_settings_file.read_text()), or [] with no file.
LoadSettings == IF SettingsFile \in DOMAIN wt THEN wt[SettingsFile] ELSE <<>>

InUse(model_settings, name) ==
    \E i \in 1..Len(model_settings) : model_settings[i].name = name

\* create_assistant without the search of the registry for the name.
CA_RegistryUnchecked(w) ==
    /\ pc[w] = "ca_registry"
    /\ loc' = [loc EXCEPT ![w].model_settings = LoadSettings]
    /\ Goto(w, "ca_settings")
    /\ UNCHANGED <<repoVars, msg, queue, did, returned, creation, fixedVars>>

\* The configuration is parsed, the registry is loaded and searched for
\* the name.
CA_Registry(w) ==
    /\ pc[w] = "ca_registry"
    /\ IF InUse(LoadSettings, req[w].name)
       THEN /\ loc' = loc
            /\ Finish(w, HttpError(409, "model already in use"))
       ELSE /\ loc' = [loc EXCEPT ![w].model_settings = LoadSettings]
            /\ Goto(w, "ca_settings")
    /\ UNCHANGED <<repoVars, msg, queue, did, returned, creation, fixedVars>>

\* new_model_settings = {"name": id}; new_model_settings["extra_params"]
\* is read, not set, when a temperature or a top_p is given.
CA_Settings(w) ==
    /\ pc[w] = "ca_settings"
    /\ IF req[w].temperature # "None" \/ req[w].top_p # ""
       THEN Finish(w, Exception("KeyError: 'extra_params'"))
       ELSE Goto(w, "ca_instructions")
    /\ UNCHANGED <<repoVars, msg, queue, loc, did, returned, creation, fixedVars>>

\* The instructions file is written; new_config["read"] is read, not set.
CA_Instructions(w) ==
    /\ pc[w] = "ca_instructions"
    /\ IF req[w].instructions # ""
       THEN /\ Step(w, "write")
            /\ wt' = Put(wt, InstrFile(req[w].name), <<req[w].instructions>>)
            /\ Finish(w, Exception("KeyError: 'read'"))
       ELSE /\ UNCHANGED <<did, wt>>
            /\ Goto(w, "ca_save")
    /\ UNCHANGED <<commits, heads, HEAD, index, dirs, origin, msg, queue, loc,
                   returned, creation, fixedVars>>

\* get_parser(default_config_files=...).parse_args(): the base configuration
\* merged with the assistant's; its alias list and its read-file list are
\* used.
ParsedConfig == [alias |-> <<>>, read |-> <<>>]

\* new_config, as this_config.write_text(yaml.dump(new_config)) writes it:
\* the alias list with f"{id}:{model_name}" appended.
NewConfig(r) == [alias |-> Append(ParsedConfig.alias, <<r.name, r.model>>)]

\* The registry is written with the new record; this_config.write_text
\* raises on a directory; else both files are staged, committed and pushed
\* and the AssistantObject is returned.
CA_Save(w) ==
    LET id == req[w].name
        settings == Append(loc[w].model_settings, [name |-> id])
        wt1 == Put(wt, SettingsFile, settings)
        wt2 == Put(wt1, ConfPath(id), NewConfig(req[w]))
        staged == Put(Put(index, SettingsFile, settings), ConfPath(id),
                      NewConfig(req[w]))
    IN  /\ pc[w] = "ca_save"
        /\ IF ConfPath(id) \in dirs
           THEN /\ Step(w, "write")
                /\ wt' = wt1
                /\ UNCHANGED <<commits, heads, index, origin>>
                /\ Finish(w, Exception("IsADirectoryError"))
           ELSE /\ did' = [did EXCEPT ![w] = @ \o <<"write", "write", "add",
                                                    "commit", "push">>]
                /\ wt' = wt2
                /\ index' = staged
                /\ commits' = Committed(commits, staged)
                /\ heads' = [heads EXCEPT ![HEAD] = Len(commits) + 1]
                /\ origin' = [b \in DOMAIN origin \cup {HEAD} |->
                                 IF b = HEAD THEN Len(commits) + 1 ELSE origin[b]]
                /\ Finish(w, Returned(Len(commits) + 1))
        /\ UNCHANGED <<HEAD, dirs, msg, queue, loc, returned, creation, fixedVars>>


\* --------------------------------------------------- create_thread
ThreadValidation(r) ==
    IF r.shape = "none" THEN "create_thread_request must be set"
    ELSE IF r.shape = "no_metadata" THEN "metadata must be set"
    ELSE IF r.shape = "no_name" THEN "metadata must have a name"
    ELSE IF ~ReMatch(r.name) THEN "name must be alphanumeric with underscores"
    ELSE ""

CT_Validate(w) ==
    /\ pc[w] = "ct_validate"
    /\ IF ThreadValidation(req[w]) # ""
       THEN Finish(w, HttpError(417, ThreadValidation(req[w])))
       ELSE Goto(w, "git_root_1")
    /\ UNCHANGED <<repoVars, msg, queue, loc, did, returned, creation, fixedVars>>

\* if name in REPO.heads: the name as given is looked up among the local
\* branches.
CT_Heads(w) ==
    /\ pc[w] = "ct_heads"
    /\ IF req[w].name \in DOMAIN heads
       THEN Finish(w, HttpError(409, "branch already exists, try again"))
       ELSE Goto(w, "ct_create_head")
    /\ UNCHANGED <<repoVars, msg, queue, loc, did, returned, creation, fixedVars>>

\* if name.startswith("aider/"): name = name[6:]
StripPrefix(name) ==
    IF StartsWith(name, S_aider \o S_slash)
    THEN SubSeq(name, 7, Len(name))
    ELSE name

\* A branch name git accepts (of the rules, the one the model's names can
\* break: no trailing slash).
ValidRefName(branch) == branch[Len(branch)] # "/"

\* REPO.create_head(f"aider/{name}"): a new branch at HEAD's commit, which
\* is not checked out.  It raises when the name is no branch name, when a
\* branch is in the way as a file or directory of refs/heads, and when the
\* branch exists at another commit.
CT_CreateHead(w) ==
    LET name == StripPrefix(req[w].name)
        branch == ThreadBranch(name)
    IN  /\ pc[w] = "ct_create_head"
        /\ Step(w, "create_head")
        /\ IF \/ ~ValidRefName(branch)
              \/ RefConflict(branch)
              \/ HeadCommit = 0
              \/ branch \in DOMAIN heads /\ heads[branch] # HeadCommit
           THEN /\ UNCHANGED <<heads, loc>>
                /\ Finish(w, Exception("OSError: create_head"))
           ELSE /\ heads' = Put(heads, branch, HeadCommit)
                /\ loc' = [loc EXCEPT ![w].name = name]
                /\ Goto(w, "ct_touch")
        /\ UNCHANGED <<commits, HEAD, index, wt, dirs, origin, msg, queue,
                       returned, creation, fixedVars>>

\* Path(".aider/threads/").mkdir(...); Path(history file).touch()
CT_Touch(w) ==
    /\ pc[w] = "ct_touch"
    /\ Step(w, "write")
    /\ wt' = IF HistFile(loc[w].name) \in DOMAIN wt
             THEN wt
             ELSE Put(wt, HistFile(loc[w].name), <<>>)
    /\ Goto(w, "ct_add")
    /\ UNCHANGED <<commits, heads, HEAD, index, dirs, origin, msg, queue, loc,
                   returned, creation, fixedVars>>

\* create_thread without its staging.
CT_AddSkipped(w) ==
    /\ pc[w] = "ct_add"
    /\ Goto(w, "ct_commit")
    /\ UNCHANGED <<repoVars, msg, queue, loc, did, returned, creation, fixedVars>>

\* REPO.index.add(items=[history file], force=True)
CT_Add(w) ==
    /\ pc[w] = "ct_add"
    /\ Step(w, "add")
    /\ IF CanAdd(HistFile(loc[w].name))
       THEN /\ index' = IndexAdd(index, HistFile(loc[w].name))
            /\ Goto(w, "ct_commit")
       ELSE /\ index' = index
            /\ Finish(w, Exception("FileNotFoundError"))
    /\ UNCHANGED <<commits, heads, HEAD, wt, dirs, origin, msg, queue, loc,
                   returned, creation, fixedVars>>

\* REPO.index.commit(f"aider: Create thread {name}")
CT_Commit(w) ==
    /\ pc[w] = "ct_commit"
    /\ Step(w, "commit")
    /\ commits' = Committed(commits, index)
    /\ heads' = [b \in DOMAIN heads \cup {HEAD} |->
                    IF b = HEAD THEN Len(commits) + 1 ELSE heads[b]]
    /\ loc' = [loc EXCEPT ![w].commit = Len(commits) + 1]
    /\ creation' = creation \cup {<<loc[w].name, Len(commits) + 1>>}
    /\ Goto(w, "ct_push")
    /\ UNCHANGED <<HEAD, index, wt, dirs, origin, msg, queue, returned,
                   fixedVars>>

\* ORIGIN.push()
CT_Push(w) ==
    /\ pc[w] = "ct_push"
    /\ Step(w, "push")
    /\ \E reachable \in BOOLEAN :
          IF reachable
          THEN origin' = Pushed /\ Goto(w, "ct_messages")
          ELSE origin' = origin /\ Finish(w, Exception("GitCommandError: push"))
    /\ UNCHANGED <<commits, heads, HEAD, index, wt, dirs, msg, queue, loc,
                   returned, creation, fixedVars>>

\* for message in create_thread_request.messages: await self.create_message(
\* thread_id=name, create_message_request=message); then the ThreadObject.
CT_Messages(w) ==
    /\ pc[w] = "ct_messages"
    /\ IF queue[w] = <<>>
       THEN /\ UNCHANGED <<msg, queue, loc>>
            /\ IF req[w].op = "create_thread_and_run"
               THEN Goto(w, "ctr_run")
               ELSE Finish(w, Returned(0))
       ELSE /\ msg' = [msg EXCEPT ![w] = [thread_id |-> loc[w].name,
                                          message |-> Head(queue[w])]]
            /\ queue' = [queue EXCEPT ![w] = Tail(@)]
            /\ loc' = [loc EXCEPT ![w].frame = "create_message"]
            /\ Goto(w, "cm_guard")
    /\ UNCHANGED <<repoVars, did, returned, creation, fixedVars>>

\* -------------------------------------------------- create_message
\* if create_message_request.metadata: raise
CM_Guard(w) ==
    /\ pc[w] = "cm_guard"
    /\ IF msg[w].message.metadata
       THEN Finish(w, HttpError(417, "metadata not supported yet"))
       ELSE Goto(w, "git_root_1")
    /\ UNCHANGED <<repoVars, msg, queue, loc, did, returned, creation, fixedVars>>

\* create_message with git checkout -B: a branch that is not there is made
\* at HEAD's commit.
CM_CheckoutCreates(w) ==
    LET branch == ThreadBranch(msg[w].thread_id)
    IN  /\ pc[w] = "cm_checkout"
        /\ Step(w, "checkout")
        /\ IF branch \notin DOMAIN heads /\ HeadCommit # 0 /\ ~RefConflict(branch)
           THEN /\ heads' = Put(heads, branch, HeadCommit)
                /\ HEAD' = branch
                /\ UNCHANGED <<index, wt>>
                /\ Goto(w, "cm_role")
           ELSE IF branch \in DOMAIN heads
                   /\ SwitchOK(Tree(HeadCommit), Tree(heads[branch]))
           THEN /\ HEAD' = branch
                /\ index' = Switched(index, Tree(HeadCommit), Tree(heads[branch]))
                /\ wt' = Switched(wt, Tree(HeadCommit), Tree(heads[branch]))
                /\ heads' = heads
                /\ Goto(w, "cm_role")
           ELSE /\ UNCHANGED <<heads, HEAD, index, wt>>
                /\ Finish(w, Exception("GitCommandError: checkout"))
        /\ UNCHANGED <<commits, dirs, origin, msg, queue, loc, returned,
                       creation, fixedVars>>

\* create_message without the checkout of the thread's branch.
CM_CheckoutSkipped(w) ==
    /\ pc[w] = "cm_checkout"
    /\ Goto(w, "cm_role")
    /\ UNCHANGED <<repoVars, msg, queue, loc, did, returned, creation, fixedVars>>

\* REPO.git.checkout(f"aider/{thread_id}")
\* create_message going back to the default branch for its commit.
CM_CheckoutDefault(w) ==
    /\ pc[w] = "cm_checkout"
    /\ Checkout(w, DEFAULT_BRANCH, "cm_role")

CM_Checkout(w) ==
    /\ pc[w] = "cm_checkout"
    /\ Checkout(w, ThreadBranch(msg[w].thread_id), "cm_role")

\* io.user_input(content): the history writer appends the content to the
\* history file, which it creates when it is not there.
IoUserInput(tree, path, content) ==
    Put(tree, path, Append(IF path \in DOMAIN tree THEN tree[path] ELSE <<>>,
                           content))

\* create_message that takes every role but "user" for the unknown role,
\* and writes an "assistant" message as it writes a "user" message.
CM_RoleAssistantWritten(w) ==
    /\ pc[w] = "cm_role"
    /\ IF msg[w].message.role \in {"user", "assistant"}
       THEN /\ Step(w, "write")
            /\ wt' = IoUserInput(wt, HistFile(msg[w].thread_id),
                                 msg[w].message.content)
            /\ Goto(w, "cm_add")
       ELSE /\ UNCHANGED <<did, wt>>
            /\ Finish(w, HttpError(417, "role must be 'user'"))
    /\ UNCHANGED <<commits, heads, HEAD, index, dirs, origin, msg, queue, loc,
                   returned, creation, fixedVars>>

\* create_message with a history file that is opened for writing, not for
\* appending.
CM_RoleOverwrites(w) ==
    /\ pc[w] = "cm_role"
    /\ IF msg[w].message.role = "user"
       THEN /\ Step(w, "write")
            /\ wt' = Put(wt, HistFile(msg[w].thread_id), <<msg[w].message.content>>)
            /\ Goto(w, "cm_add")
       ELSE /\ UNCHANGED <<did, wt>>
            /\ IF msg[w].message.role = "assistant"
               THEN Finish(w, HttpError(417, "assistant messages not supported yet"))
               ELSE Finish(w, HttpError(417, "role must be 'user'"))
    /\ UNCHANGED <<commits, heads, HEAD, index, dirs, origin, msg, queue, loc,
                   returned, creation, fixedVars>>

\* The role decides: "user" writes, any other role raises.
CM_Role(w) ==
    /\ pc[w] = "cm_role"
    /\ IF msg[w].message.role = "user"
       THEN /\ Step(w, "write")
            /\ wt' = IoUserInput(wt, HistFile(msg[w].thread_id),
                                 msg[w].message.content)
            /\ Goto(w, "cm_add")
       ELSE /\ UNCHANGED <<did, wt>>
            /\ IF msg[w].message.role = "assistant"
               THEN Finish(w, HttpError(417, "assistant messages not supported yet"))
               ELSE Finish(w, HttpError(417, "role must be 'user'"))
    /\ UNCHANGED <<commits, heads, HEAD, index, dirs, origin, msg, queue, loc,
                   returned, creation, fixedVars>>

\* create_message staging all of the working tree.
CM_AddAll(w) ==
    /\ pc[w] = "cm_add"
    /\ Step(w, "add")
    /\ index' = wt
    /\ Goto(w, "cm_commit")
    /\ UNCHANGED <<commits, heads, HEAD, wt, dirs, origin, msg, queue, loc,
                   returned, creation, fixedVars>>

\* REPO.index.add(items=[history file], force=True)
CM_Add(w) ==
    /\ pc[w] = "cm_add"
    /\ Step(w, "add")
    /\ IF CanAdd(HistFile(msg[w].thread_id))
       THEN /\ index' = IndexAdd(index, HistFile(msg[w].thread_id))
            /\ Goto(w, "cm_commit")
       ELSE /\ index' = index
            /\ Finish(w, Exception("FileNotFoundError"))
    /\ UNCHANGED <<commits, heads, HEAD, wt, dirs, origin, msg, queue, loc,
                   returned, creation, fixedVars>>

\* commit = REPO.index.commit(f"aider: Add '{role}' message to {thread_id}")
CM_Commit(w) ==
    /\ pc[w] = "cm_commit"
    /\ Step(w, "commit")
    /\ commits' = Committed(commits, index)
    /\ heads' = [b \in DOMAIN heads \cup {HEAD} |->
                    IF b = HEAD THEN Len(commits) + 1 ELSE heads[b]]
    /\ loc' = [loc EXCEPT ![w].commit = Len(commits) + 1]
    /\ Goto(w, "cm_push")
    /\ UNCHANGED <<HEAD, index, wt, dirs, origin, msg, queue, returned,
                   creation, fixedVars>>

\* create_message that returns the MessageObject without the push.
CM_PushSkipped(w) ==
    /\ pc[w] = "cm_push"
    /\ returned' = Append(returned, <<msg[w].thread_id, loc[w].commit>>)
    /\ IF req[w].op = "create_thread"
       THEN /\ loc' = [loc EXCEPT ![w].frame = "create_thread"]
            /\ Goto(w, "ct_messages")
       ELSE /\ loc' = loc
            /\ Finish(w, Returned(loc[w].commit))
    /\ UNCHANGED <<repoVars, msg, queue, did, creation, fixedVars>>

\* ORIGIN.push(), then the MessageObject with id=commit.hexsha is returned:
\* to the caller, or to create_thread's loop.
CM_Push(w) ==
    /\ pc[w] = "cm_push"
    /\ Step(w, "push")
    /\ \E reachable \in BOOLEAN :
          IF reachable
          THEN /\ origin' = Pushed
               /\ returned' = Append(returned, <<msg[w].thread_id, loc[w].commit>>)
               /\ IF req[w].op # "create_message"
                  THEN /\ loc' = [loc EXCEPT ![w].frame = "create_thread"]
                       /\ Goto(w, "ct_messages")
                  ELSE /\ loc' = loc
                       /\ Finish(w, Returned(loc[w].commit))
          ELSE /\ UNCHANGED <<origin, returned, loc>>
               /\ Finish(w, Exception("GitCommandError: push"))
    /\ UNCHANGED <<commits, heads, HEAD, index, wt, dirs, msg, queue,
                   creation, fixedVars>>

\* ------------------------------------------- the other handlers
\* create_run: raise NotImplementedError("TODO")
CreateRun(w) ==
    /\ pc[w] = "create_run"
    /\ Finish(w, Exception("NotImplementedError: TODO"))
    /\ UNCHANGED <<repoVars, msg, queue, loc, did, returned, creation, fixedVars>>

\* create_thread_and_run without the thread's id.
CTR_RunUnnamed(w) ==
    /\ pc[w] = "ctr_run"
    /\ msg' = [msg EXCEPT ![w] = [thread_id |-> <<>>, message |-> NoMessage]]
    /\ loc' = [loc EXCEPT ![w].frame = "create_run"]
    /\ Goto(w, "create_run")
    /\ UNCHANGED <<repoVars, queue, did, returned, creation, fixedVars>>

\* create_thread_and_run, create_thread having returned its ThreadObject:
\* return await self.create_run(thread_id=thread_object.id, ...)
CTR_Run(w) ==
    /\ pc[w] = "ctr_run"
    /\ msg' = [msg EXCEPT ![w] = [thread_id |-> loc[w].name, message |-> NoMessage]]
    /\ loc' = [loc EXCEPT ![w].frame = "create_run"]
    /\ Goto(w, "create_run")
    /\ UNCHANGED <<repoVars, queue, did, returned, creation, fixedVars>>

\* A handler that synchronizes the repository before it raises.
WontDoSyncs(w) ==
    /\ pc[w] = "wont_do"
    /\ Checkout(w, DEFAULT_BRANCH, "wont_do")

\* cancel_run, modify_run, modify_assistant: raise NotImplementedError("WON'T DO")
WontDo(w) ==
    /\ pc[w] = "wont_do"
    /\ Finish(w, Exception("NotImplementedError: WON'T DO"))
    /\ UNCHANGED <<repoVars, msg, queue, loc, did, returned, creation, fixedVars>>

\* A query that checks out the working branch to read from it.
QuerySyncs(w) ==
    /\ pc[w] = "query"
    /\ Checkout(w, AIDER_MAIN_BRANCH, "query")

\* get_assistant, get_message, get_run, get_run_step, get_thread,
\* list_assistants, list_run_steps, list_runs: raise NotImplementedError
Query(w) ==
    /\ pc[w] = "query"
    /\ Finish(w, Exception("NotImplementedError"))
    /\ UNCHANGED <<repoVars, msg, queue, loc, did, returned, creation, fixedVars>>

\* list_messages: a run_id is refused, then raise NotImplementedError("LATER")
ListMessages(w) ==
    /\ pc[w] = "list_messages"
    /\ IF req[w].run_id
       THEN Finish(w, HttpError(417, "run_id not supported."))
       ELSE Finish(w, Exception("NotImplementedError: LATER"))
    /\ UNCHANGED <<repoVars, msg, queue, loc, did, returned, creation, fixedVars>>

\* ------------------------------------------------- specifications
Handler(w) ==
    \/ CA_Validate(w) \/ CA_Exists(w) \/ CA_Mkdir(w) \/ CA_Add(w)
    \/ CA_Registry(w) \/ CA_Settings(w) \/ CA_Instructions(w) \/ CA_Save(w)
    \/ CT_Validate(w) \/ CT_Heads(w) \/ CT_CreateHead(w) \/ CT_Touch(w)
    \/ CT_Add(w) \/ CT_Commit(w) \/ CT_Push(w) \/ CT_Messages(w)
    \/ CM_Guard(w) \/ CM_Checkout(w) \/ CM_Role(w) \/ CM_Add(w)
    \/ CM_Commit(w) \/ CM_Push(w)
    \/ GitRoot1(w) \/ GitRoot2(w) \/ GitRoot3(w) \/ GitRoot4(w) \/ GitRoot5(w)

\* The handlers that write nothing.
OtherHandler(w) ==
    \/ CreateRun(w) \/ CTR_Run(w) \/ WontDo(w) \/ Query(w) \/ ListMessages(w)

\* One server process: its handlers have no point at which the event loop
\* could switch, so that each call ends before the next begins.
Next ==
    \/ Call(1)
    \/ Handler(1)
    \/ OtherHandler(1)
    \/ RemoteAdvance

Spec == Init /\ [][Next]_vars

\* Two server processes (uvicorn workers, or two users of the library) on
\* the same clone: nothing in the handlers keeps their steps apart.
ConcurrentRequests ==
    {AssistantRequest(S_a),
     ThreadRequest("named", S_U, <<>>),
     MessageRequest(S_T, Message("user", "x", FALSE)),
     MessageRequest(S_U, Message("user", "y", FALSE))}

ConcurrentCall(w) ==
    /\ ncalls[w] < MaxConcurrentOps
    /\ \E r \in ConcurrentRequests : Dispatch(w, r)

NextConcurrent ==
    \/ \E w \in Workers : ConcurrentCall(w)
    \/ \E w \in Workers : Handler(w)
    \/ RemoteAdvance

SpecConcurrent == Init /\ [][NextConcurrent]_vars

\* One run of scripts/prune_models.py, on any of the file systems, with
\* the entry file and all the model files as its arguments.
InitPrune ==
    /\ FreshRepo(S_aider, FALSE)
    /\ Idle
    /\ files \in FileSystems
    /\ \E dry_run \in BOOLEAN :
          args = [entry_files |-> {EntryPath}, prune_files |-> ModelPaths,
                  dry_run |-> dry_run]
    /\ graph = NoGraph
    /\ reachable_nodes = {}
    /\ to_remove = {}
    /\ prune_pc = "main"

NextPrune == PM_Build \/ PM_Reachable \/ PM_Select \/ PM_Remove

SpecPrune == InitPrune /\ [][NextPrune]_vars


\* ------------------------------------------------------- properties
\* Commit c is on branch b: it is the tip or an ancestor of the tip.
OnBranch(c, b) == b \in DOMAIN heads /\ IsAncestor(commits, c, heads[b])

Ended(w) == pc[w] = "done"

\* The positions from the start of git_root() to the return of the push.
CriticalSection ==
    {"git_root_1", "git_root_2", "git_root_3", "git_root_4", "git_root_5",
     "ca_exists", "ca_mkdir", "ca_add", "ca_registry", "ca_settings",
     "ca_instructions", "ca_save",
     "ct_heads", "ct_create_head", "ct_touch", "ct_add", "ct_commit", "ct_push",
     "cm_checkout", "cm_role", "cm_add", "cm_commit", "cm_push"}

\* C1: at most one mutating operation is between the start of its
\* git_root() and the return of its push.
C1_MutualExclusion ==
    \A v, w \in Workers :
        v # w => ~(pc[v] \in CriticalSection /\ pc[w] \in CriticalSection)

\* The messages in the history files of a tree.
Texts(tree) ==
    UNION {{tree[p][i] : i \in 1..Len(tree[p])} :
               p \in {q \in DOMAIN tree : q[1] = "threads"}}

\* C2: of two create_message calls in flight for threads T and U, the
\* commit each makes is on its own thread's branch and not on the other's,
\* and holds nothing of the other call's content.
C2_NoCrossThreadCommit ==
    (/\ req[1] = MessageRequest(S_T, Message("user", "x", FALSE))
     /\ req[2] = MessageRequest(S_U, Message("user", "y", FALSE)))
    => /\ loc[1].commit # 0 =>
             /\ OnBranch(loc[1].commit, ThreadBranch(S_T))
             /\ ~OnBranch(loc[1].commit, ThreadBranch(S_U))
             /\ "y" \notin Texts(Tree(loc[1].commit))
       /\ loc[2].commit # 0 =>
             /\ OnBranch(loc[2].commit, ThreadBranch(S_U))
             /\ ~OnBranch(loc[2].commit, ThreadBranch(S_T))
             /\ "x" \notin Texts(Tree(loc[2].commit))

\* The call of worker w got through git_root().
Synchronized(w) ==
    Len(did[w]) >= 5 /\ res[w].detail # "GitCommandError: rebase"

\* The name had a configuration path or a registry record when the call
\* of worker w began.
KnownAtEntry(w, name) ==
    \/ ConfPath(name) \in DOMAIN entry[w].wt
    \/ ConfPath(name) \in entry[w].dirs
    \/ /\ SettingsFile \in DOMAIN entry[w].wt
       /\ InUse(entry[w].wt[SettingsFile], name)

\* The registry records of a tree that carry the name.
RegistryRecords(tree, name) ==
    IF SettingsFile \in DOMAIN tree
    THEN {i \in 1..Len(tree[SettingsFile]) : tree[SettingsFile][i].name = name}
    ELSE {}

\* C3: of the valid create_assistant calls that got through git_root(), one
\* for a name that is already known fails with the already-exists or the
\* conflict error and leaves the registry and the configuration file as
\* they were; so a call that succeeds is the first for its name, and the
\* registry never holds two records for the name.
C3_OnceThenConflict ==
    \A w \in Workers :
        (/\ Ended(w)
         /\ req[w].op = "create_assistant"
         /\ AssistantValidation(req[w]) = ""
         /\ Synchronized(w))
        => /\ KnownAtEntry(w, req[w].name) =>
                 /\ res[w].detail \in {"id already exists, try again",
                                       "model already in use"}
                 /\ Get(wt, SettingsFile) = Get(entry[w].wt, SettingsFile)
                 /\ Get(wt, ConfPath(req[w].name))
                        = Get(entry[w].wt, ConfPath(req[w].name))
           /\ res[w].kind = "ok" => ~KnownAtEntry(w, req[w].name)
           /\ Cardinality(RegistryRecords(wt, req[w].name)) <= 1

\* A second call for the name of the call before it, which had written the
\* name's registry record, ended with the already-exists error.
C3_Witness ==
    \E w \in Workers :
        /\ Ended(w)
        /\ ncalls[w] = 2
        /\ req[w].op = "create_assistant"
        /\ res[w].detail = "id already exists, try again"
        /\ ConfPath(req[w].name) \in entry[w].dirs
        /\ Cardinality(RegistryRecords(wt, req[w].name)) = 1
        /\ RegistryRecords(RootTree(TRUE), req[w].name) = {}

\* Commit c adds path p: its tree has it and its parent's has not.
Adds(c, p) ==
    p \in DOMAIN commits[c].tree /\ p \notin DOMAIN Tree(commits[c].parent)

\* C4: after a create_thread call for a name whose branch was not there,
\* however the call ended, the branch aider/<name> is there exactly when a
\* commit adding the name's history file is on it, and no such commit is
\* anywhere without the branch.
C4_BranchIffFileCommit ==
    \A w \in Workers :
        LET name == StripPrefix(req[w].name)
            branch == ThreadBranch(name)
            adding == {c \in 1..Len(commits) : Adds(c, HistFile(name))}
        IN  (/\ Ended(w)
             /\ req[w].op = "create_thread"
             /\ ThreadValidation(req[w]) = ""
             /\ branch \notin DOMAIN entry[w].heads
             /\ \A c \in 1..entry[w].ncommits : ~Adds(c, HistFile(name)))
            => /\ branch \in DOMAIN heads => \E c \in adding : OnBranch(c, branch)
               /\ adding # {} => branch \in DOMAIN heads

\* C5: after a successful create_thread without messages, the commit it
\* made is the tip of aider/<name>.
C5_CreationCommitIsTip ==
    \A w \in Workers :
        (/\ Ended(w)
         /\ req[w].op = "create_thread"
         /\ req[w].messages = <<>>
         /\ res[w].kind = "ok")
        => /\ ThreadBranch(loc[w].name) \in DOMAIN heads
           /\ heads[ThreadBranch(loc[w].name)] = loc[w].commit


\* The commits returned as message ids for thread t, in the order returned.
RECURSIVE IdsOf(_, _)
IdsOf(log, t) ==
    IF log = <<>> THEN <<>>
    ELSE IF Head(log)[1] = t THEN <<Head(log)[2]>> \o IdsOf(Tail(log), t)
    ELSE IdsOf(Tail(log), t)

ThreadsReturned == {returned[k][1] : k \in 1..Len(returned)}

\* C6: the message ids returned for a thread are distinct commits, none of
\* them a thread-creation commit, each a parent-chain successor of the one
\* returned before it, and all of them still on the thread's branch.
C6_MessageIdsAppendOnly ==
    \A t \in ThreadsReturned :
        LET ids == IdsOf(returned, t)
        IN  /\ \A i \in 1..Len(ids) :
                  /\ ids[i] \in 1..Len(commits)
                  /\ OnBranch(ids[i], ThreadBranch(t))
                  /\ \A e \in creation : e[2] # ids[i]
            /\ \A i, j \in 1..Len(ids) :
                  i < j => /\ ids[i] # ids[j]
                           /\ IsAncestor(commits, ids[i], commits[ids[j]].parent)

\* Two messages were returned for one thread, and between them the working
\* branch was rebased onto a commit another clone had pushed.
C6_Witness ==
    \E t \in ThreadsReturned :
        LET ids == IdsOf(returned, t)
        IN  /\ Len(ids) >= 2
            /\ nRemote > 0
            /\ ids[1] < origin[DEFAULT_BRANCH]
            /\ origin[DEFAULT_BRANCH] < heads[AIDER_MAIN_BRANCH]
            /\ heads[AIDER_MAIN_BRANCH] < ids[2]
            /\ OnBranch(origin[DEFAULT_BRANCH], AIDER_MAIN_BRANCH)

IsPrefix(s, t) == Len(s) <= Len(t) /\ SubSeq(t, 1, Len(s)) = s

\* The history of thread t as commit c holds it.
History(c, t) ==
    IF HistFile(t) \in DOMAIN commits[c].tree
    THEN commits[c].tree[HistFile(t)]
    ELSE <<>>

\* Commit c and the commits before it on its parent chain.
RECURSIVE Ancestors(_)
Ancestors(c) == IF c = 0 THEN {} ELSE {c} \cup Ancestors(commits[c].parent)

ThreadBranches == {b \in DOMAIN heads : StartsWith(b, S_aider \o S_slash)}

\* C7: along every thread's branch the thread's history file only grows:
\* what a commit holds is a prefix of what every later commit holds, each
\* commit of the branch extending what its parent holds.
C7_HistoryAppendOnly ==
    \A b \in ThreadBranches :
        \A c \in Ancestors(heads[b]) :
            commits[c].parent # 0 =>
                IsPrefix(History(commits[c].parent, StripPrefix(b)),
                         History(c, StripPrefix(b)))

\* A thread's branch holds two different messages, one after the other.
C7_Witness ==
    \E b \in ThreadBranches :
        LET h == History(heads[b], StripPrefix(b))
        IN  Len(h) >= 2 /\ h[1] # h[2]

\* The details of the validation errors: a name, the model, a field that
\* is not supported, a message's metadata, a role.
ValidationDetails ==
    {"name needs to be set, as that will be the id",
     "name must be alphanumeric with underscores",
     "model needs to be set", "tools not supported yet",
     "tool_resources not supported yet",
     "only response_format 'auto' supported", "metadata not supported yet",
     "no way to save a description, put info in name",
     "create_thread_request must be set", "metadata must be set",
     "metadata must have a name", "assistant messages not supported yet",
     "role must be 'user'"}

\* The clone is as the call of worker w found it.
Untouched(w) ==
    /\ HEAD = entry[w].HEAD
    /\ index = entry[w].index
    /\ wt = entry[w].wt
    /\ dirs = entry[w].dirs
    /\ heads = entry[w].heads

\* C8: when a handler raises a validation error, its call has made no
\* repository step and the clone is as the call found it.
C8_ValidationBeforeGit ==
    \A w \in Workers :
        (/\ Ended(w)
         /\ loc[w].frame = req[w].op
         /\ res[w].kind = "http"
         /\ res[w].detail \in ValidationDetails)
        => did[w] = <<>> /\ Untouched(w)

\* The name is empty or has a character outside [a-zA-Z0-9_].
InvalidName(name) ==
    name = <<>> \/ \E i \in 1..Len(name) : name[i] \notin IdentChars

\* C9: a create_assistant call with an invalid name makes no repository
\* step, leaves the clone as it found it and ends with the 417 error for
\* the name, however many calls came before.
C9_InvalidNameNoEffect ==
    \A w \in Workers :
        (req[w].op = "create_assistant" /\ InvalidName(req[w].name))
        => /\ pc[w] \in {"ca_validate", "done"}
           /\ did[w] = <<>>
           /\ Untouched(w)
           /\ Ended(w) =>
                 /\ res[w].kind = "http"
                 /\ res[w].code = 417
                 /\ res[w].detail \in
                        {"name needs to be set, as that will be the id",
                         "name must be alphanumeric with underscores"}

\* A second call in a row ended with the 417 error for a name with a space.
C9_Witness ==
    \E w \in Workers :
        /\ Ended(w)
        /\ ncalls[w] = 2
        /\ req[w].op = "create_assistant"
        /\ req[w].name = <<"a", " ">>
        /\ res[w].code = 417
        /\ dirs # {}

Elements(seq) == {seq[i] : i \in 1..Len(seq)}

\* C10: when create_assistant raises the already-exists error or the
\* registry-conflict error, no directory or file was made, nothing was
\* added to the index and no checkout happened.
C10_ConflictLeavesNoTrace ==
    \A w \in Workers :
        (/\ Ended(w)
         /\ req[w].op = "create_assistant"
         /\ res[w].detail \in {"id already exists, try again",
                               "model already in use"})
        => /\ dirs = entry[w].dirs
           /\ wt = entry[w].wt
           /\ index = entry[w].index
           /\ "checkout" \notin Elements(did[w])

\* C11: a create_assistant call fails with the already-exists error or the
\* conflict error only for a name whose configuration file or registry
\* record is committed, never for what a failed call left in the working
\* tree: a retry of a failed call meets the repository the call met.
C11_RetryMeetsNoLeftovers ==
    \A w \in Workers :
        (Ended(w) /\ req[w].op = "create_assistant")
        => /\ res[w].detail = "id already exists, try again"
                => ConfPath(req[w].name) \in DOMAIN Tree(HeadCommit)
           /\ res[w].detail = "model already in use"
                => RegistryRecords(Tree(HeadCommit), req[w].name) # {}

\* The call of worker w got through git_root() and the checkout of the
\* thread's branch that follows it in create_message.
ThreadCheckedOut(w) ==
    /\ Len(did[w]) >= 6
    /\ res[w].detail \notin {"GitCommandError: rebase", "GitCommandError: checkout"}

\* The branches git_root() does not bring up to date.
UnsyncedBranches == DOMAIN heads \ {DEFAULT_BRANCH, AIDER_MAIN_BRANCH}

\* C12: a create_message call with role "assistant" for a thread that is
\* there never returns a record, makes no write, no staging and no commit,
\* and leaves the thread branches where they were; once it has the thread's
\* branch checked out, it ends with the 417 "assistant messages not
\* supported yet".
C12_AssistantRoleRejected ==
    \A w \in Workers :
        (/\ Ended(w)
         /\ req[w].op = "create_message"
         /\ req[w].message.role = "assistant"
         /\ ThreadBranch(req[w].thread_id) \in DOMAIN entry[w].heads)
        => /\ res[w].kind # "ok"
           /\ Elements(did[w]) \cap {"write", "add", "commit", "push"} = {}
           /\ \A b \in UnsyncedBranches :
                  b \in DOMAIN entry[w].heads /\ heads[b] = entry[w].heads[b]
           /\ ThreadCheckedOut(w) =>
                 res[w] = HttpError(417, "assistant messages not supported yet")

\* Such a call ended with the 417 error, the thread's branch checked out.
C12_Witness ==
    \E w \in Workers :
        /\ Ended(w)
        /\ req[w].op = "create_message"
        /\ req[w].message.role = "assistant"
        /\ ThreadBranch(req[w].thread_id) \in DOMAIN entry[w].heads
        /\ ThreadCheckedOut(w)
        /\ HEAD = ThreadBranch(req[w].thread_id)
        /\ res[w].code = 417

\* C13: a valid create_thread call that got through git_root() and found
\* the branch aider/<name> there ends with the 409 conflict error, with no
\* branch, no file and no commit made.
C13_ExistingBranchConflict ==
    \A w \in Workers :
        (/\ Ended(w)
         /\ req[w].op = "create_thread"
         /\ ThreadValidation(req[w]) = ""
         /\ Synchronized(w)
         /\ ThreadBranch(StripPrefix(req[w].name)) \in DOMAIN entry[w].heads)
        => /\ res[w].kind = "http"
           /\ res[w].code = 409
           /\ DOMAIN heads = DOMAIN entry[w].heads
           /\ Elements(did[w]) \cap {"create_head", "write", "add", "commit"} = {}

Prefixed(id) == StartsWith(id, S_aider \o S_slash)

\* C15: an id given with the prefix "aider/" is taken as the id without
\* it: create_thread does not refuse it as a name, and create_message
\* finds the branch aider/<id> of the thread that is there.
C15_PrefixStrippedOnce ==
    \A w \in Workers :
        /\ (/\ Ended(w)
            /\ req[w].op = "create_thread"
            /\ req[w].shape = "named"
            /\ Prefixed(req[w].name)
            /\ ReMatch(StripPrefix(req[w].name)))
           => res[w].detail # "name must be alphanumeric with underscores"
        /\ (/\ Ended(w)
            /\ req[w].op = "create_message"
            /\ Prefixed(req[w].thread_id)
            /\ ThreadBranch(StripPrefix(req[w].thread_id)) \in DOMAIN entry[w].heads
            /\ Synchronized(w))
           => ThreadCheckedOut(w) /\ HEAD = ThreadBranch(StripPrefix(req[w].thread_id))

\* C16: a create_message call whose thread id has a character outside
\* [A-Za-z0-9_] ends with a 417 error before any repository step.
C16_ThreadIdValidated ==
    \A w \in Workers :
        (/\ Ended(w)
         /\ req[w].op = "create_message"
         /\ InvalidName(req[w].thread_id))
        => /\ res[w].kind = "http"
           /\ res[w].code = 417
           /\ did[w] = <<>>

\* The name of the call of worker w is fresh and the call is valid and got
\* through git_root().
FreshValidAssistant(w) ==
    /\ Ended(w)
    /\ req[w].op = "create_assistant"
    /\ AssistantValidation(req[w]) = ""
    /\ Synchronized(w)
    /\ ~KnownAtEntry(w, req[w].name)

\* C17: a valid create_assistant call for a fresh name, with a temperature
\* or without one and with no instructions, returns the record and has the
\* name's registry record in the commit it made.
C17_TemperatureRoundTrip ==
    \A w \in Workers :
        (FreshValidAssistant(w) /\ req[w].instructions = "" /\ req[w].top_p = "")
        => /\ res[w].kind = "ok"
           /\ Cardinality(RegistryRecords(Tree(HeadCommit), req[w].name)) = 1

\* The checks of the fields, as the claim lists them: a valid name, a
\* model, no tools, no tool_resources, the response format omitted or
\* "auto", no metadata, no description.
FieldsAccepted(r) ==
    /\ ~InvalidName(r.name)
    /\ r.model # ""
    /\ ~r.tools
    /\ ~r.tool_resources
    /\ r.response_format \in {"", "auto"}
    /\ ~r.metadata
    /\ ~r.description

\* C18: create_assistant ends with a 417 validation error, before any
\* repository step, exactly for the requests whose fields are not accepted.
C18_FieldValidationExact ==
    \A w \in Workers :
        (Ended(w) /\ req[w].op = "create_assistant")
        => (FieldsAccepted(req[w])
               <=> ~(res[w].code = 417 /\ res[w].detail \in ValidationDetails))

\* C19: a valid create_assistant call for a fresh name with instructions
\* returns the record, with the instructions file holding the text and
\* committed.
C19_InstructionsSaved ==
    \A w \in Workers :
        (FreshValidAssistant(w) /\ req[w].instructions # "")
        => /\ res[w].kind = "ok"
           /\ Get(wt, InstrFile(req[w].name)) = <<<<req[w].instructions>>>>
           /\ ConfPath(req[w].name) \in DOMAIN Tree(HeadCommit)

\* C20: the already-exists error and the registry-conflict error of
\* create_assistant both carry the status 409.
C20_CollisionIs409 ==
    \A w \in Workers :
        (/\ Ended(w)
         /\ req[w].op = "create_assistant"
         /\ res[w].detail \in {"id already exists, try again",
                               "model already in use"})
        => res[w].code = 409

\* Commit c is on origin: on the chain of one of origin's branches.
OnOrigin(c) == \E b \in DOMAIN origin : IsAncestor(commits, c, origin[b])

\* C21: a call that made a commit and returned a record has its commit on
\* origin: a push that did not get the commit there makes the call fail.
C21_ReturnedMeansPushed ==
    \A w \in Workers :
        (Ended(w) /\ res[w].kind = "ok" /\ loc[w].commit # 0)
        => OnOrigin(loc[w].commit)

Contents(messages) == [i \in 1..Len(messages) |-> messages[i].content]

\* The creation commits the call of worker w made for its thread.
OwnCreation(w) ==
    {e[2] : e \in {f \in creation : f[1] = loc[w].name /\ f[2] > entry[w].ncommits}}

\* C23: after a successful create_thread with initial messages m1..mk the
\* branch aider/<name> holds the creation commit and after it exactly k
\* commits, and the history file at its tip lists m1..mk in order.
C23_InitialMessagesInOrder ==
    \A w \in Workers :
        (/\ Ended(w)
         /\ req[w].op = "create_thread"
         /\ res[w].kind = "ok"
         /\ req[w].messages # <<>>)
        => LET branch == ThreadBranch(loc[w].name)
           IN  /\ branch \in DOMAIN heads
               /\ History(heads[branch], loc[w].name) = Contents(req[w].messages)
               /\ \E c \in OwnCreation(w) :
                     /\ OnBranch(c, branch)
                     /\ Len(ChainSince(commits, c, heads[branch]))
                           = Len(req[w].messages)

\* C24: cancel_run, modify_run and modify_assistant end in the
\* unsupported-operation error whatever the request and whatever the state of
\* the repository, in one step and without having read or changed the
\* repository.
C24_WontDoAlwaysRefuses ==
    \A w \in Workers :
        req[w].op \in WontDoOps =>
            /\ pc[w] \in {"wont_do", "done"}
            /\ did[w] = <<>>
            /\ Untouched(w)
            /\ Ended(w) => res[w] = Exception("NotImplementedError: WON'T DO")

C24_Witness ==
    \E w \in Workers :
        /\ Ended(w)
        /\ req[w].op = "modify_assistant"
        /\ res[w] = Exception("NotImplementedError: WON'T DO")
        /\ ncalls[w] = 2
        /\ Len(commits) > 2
        /\ wt # Tree(heads[HEAD])

\* C25: create_thread_and_run invokes create_run only after create_thread has
\* run to completion (branch created, creation commit made and pushed,
\* nothing left of its messages), and hands it the id of that thread; when
\* create_thread fails, its error is the result and create_run is not
\* invoked.
C25_ThreadThenRun ==
    \A w \in Workers :
        req[w].op = "create_thread_and_run" =>
            /\ loc[w].frame = "create_run" =>
                  /\ pc[w] \in {"create_run", "done"}
                  /\ req[w].shape = "named"
                  /\ loc[w].name = req[w].name
                  /\ msg[w].thread_id = loc[w].name
                  /\ queue[w] = <<>>
                  /\ OwnCreation(w) # {}
                  /\ Len(did[w]) >= 2
                  /\ did[w][Len(did[w]) - 1] = "commit"
                  /\ did[w][Len(did[w])] = "push"
            /\ Ended(w) =>
                  IF loc[w].frame = "create_run"
                  THEN res[w] = Exception("NotImplementedError: TODO")
                  ELSE /\ loc[w].frame = "create_thread"
                       /\ res[w].kind # "ok"
                       /\ res[w] # Exception("NotImplementedError: TODO")

C25_Witness ==
    \E w \in Workers :
        /\ Ended(w)
        /\ req[w].op = "create_thread_and_run"
        /\ loc[w].frame = "create_run"
        /\ ThreadBranch(loc[w].name) \in DOMAIN heads

\* C26: list_messages, get_message, get_thread, list_assistants,
\* get_assistant, list_runs, list_run_steps, get_run and get_run_step leave
\* the repository as they found it, whether they return or raise: no
\* repository step is made, and the current branch, the branches, the index
\* and the working tree are those of the call's entry.
C26_QueriesLeaveRepository ==
    \A w \in Workers :
        req[w].op \in QueryOps \cup {"list_messages"} =>
            /\ did[w] = <<>>
            /\ Untouched(w)
            /\ OwnCreation(w) = {}
            /\ Ended(w) => res[w].kind # "none"

C26_Witness ==
    \E w \in Workers :
        /\ Ended(w)
        /\ req[w].op = "list_messages"
        /\ req[w].run_id
        /\ res[w] = HttpError(417, "run_id not supported.")
        /\ ncalls[w] = 2
        /\ HEAD # DEFAULT_BRANCH
        /\ wt # Tree(heads[HEAD])

\* The model files a file makes the importing file depend on, and the model
\* files the entry files need: those they import and those imported, through
\* any number of model files, by these.
ImportedBy(p) ==
    IF p \in DOMAIN files
    THEN {files[p][i].imports : i \in 1..Len(files[p])}
    ELSE {}

RECURSIVE NeededFrom(_)
NeededFrom(S) ==
    LET next == S \cup UNION {ImportedBy(p) : p \in S}
    IN  IF next = S THEN S ELSE NeededFrom(next)

Needed == NeededFrom(args.entry_files) \cap args.prune_files

\* The script has listed the unused files and has removed none yet.
Listed ==
    /\ prune_pc \in {"report", "done"}
    /\ args.prune_files \subseteq DOMAIN files

\* C27: the model files prune_models selects for removal are exactly those
\* that no entry file imports, in any of the import forms, and that no model
\* file needed by an entry file imports.
C27_SelectsExactlyUnneeded ==
    Listed => to_remove = args.prune_files \ Needed

C28_WitnessDryRun ==
    /\ prune_pc = "done"
    /\ args.dry_run
    /\ to_remove # {}

\* The repository steps of git_root().
GitRootSteps == <<"checkout", "pull", "checkout", "pull", "rebase">>

\* The steps a call has made after git_root().
AfterSync(w) == SubSeq(did[w], Len(GitRootSteps) + 1, Len(did[w]))

\* C29: a call of create_assistant, of create_thread without initial
\* messages or of create_message that returns normally has made the steps of
\* git_root first, then branch steps only (create_head, checkout), then
\* its file writes, then the staging, then one commit, then the push, and
\* nothing after; the file written is in the commit.
C29_SyncWriteStageCommitPush ==
    \A w \in Workers :
        (/\ Ended(w)
         /\ res[w].kind = "ok"
         /\ \/ req[w].op \in {"create_assistant", "create_message"}
            \/ req[w].op = "create_thread" /\ req[w].messages = <<>>)
        => LET rest == AfterSync(w)
               n == Len(rest)
               writes == {i \in 1..n : rest[i] = "write"}
           IN  /\ SubSeq(did[w], 1, Len(GitRootSteps)) = GitRootSteps
               /\ n >= 4
               /\ rest[n] = "push"
               /\ rest[n - 1] = "commit"
               /\ rest[n - 2] = "add"
               /\ writes # {}
               /\ \A i \in 1..(n - 3) :
                     \/ i \in writes /\ \A j \in i..(n - 3) : j \in writes
                     \/ rest[i] \in {"create_head", "checkout", "mkdir"}
                        /\ \A j \in 1..i : j \notin writes
               /\ loc[w].commit \in 1..Len(commits)
               /\ \E p \in DOMAIN Tree(loc[w].commit) :
                     p[1] \in {"threads", "assistants"}

C29_Witness ==
    \E w \in Workers :
        /\ Ended(w)
        /\ res[w].kind = "ok"
        /\ req[w].op = "create_thread"
        /\ req[w].messages = <<>>
        /\ did[w] = GitRootSteps \o <<"create_head", "write", "add", "commit", "push">>

C29_WitnessMessage ==
    \E w \in Workers :
        /\ Ended(w)
        /\ res[w].kind = "ok"
        /\ req[w].op = "create_message"
        /\ did[w] = GitRootSteps \o <<"checkout", "write", "add", "commit", "push">>

\* The steps git_root() has made when the handler is at a position in it,
\* and the positions at which it has just returned.
GitRootDone ==
    [git_root_1 |-> 0, git_root_2 |-> 1, git_root_3 |-> 2, git_root_4 |-> 3,
     git_root_5 |-> 4]
GitRootReturned == {"ca_exists", "ct_heads", "cm_checkout"}

\* The last n steps of a call.
LastSteps(w, n) == SubSeq(did[w], Len(did[w]) - n + 1, Len(did[w]))

\* C30: git_root() makes its steps in the order checkout of the default
\* branch, pull, checkout of the working branch, pull, rebase; when it has
\* returned, the working branch is checked out and the tip of the default
\* branch, as just pulled from origin, is among its commits, whichever
\* branch was checked out at the call.
C30_GitRootOrderAndResult ==
    \A w \in Workers :
        /\ pc[w] \in DOMAIN GitRootDone =>
              LET k == GitRootDone[pc[w]]
              IN  /\ Len(did[w]) >= k
                  /\ LastSteps(w, k) = SubSeq(GitRootSteps, 1, k)
                  /\ k \in {1, 2} => HEAD = DEFAULT_BRANCH
                  /\ k \in {3, 4} => HEAD = AIDER_MAIN_BRANCH
        /\ pc[w] \in GitRootReturned =>
              /\ Len(did[w]) >= Len(GitRootSteps)
              /\ LastSteps(w, Len(GitRootSteps)) = GitRootSteps
              /\ HEAD = AIDER_MAIN_BRANCH
              /\ heads[DEFAULT_BRANCH] = origin[DEFAULT_BRANCH]
              /\ IsAncestor(commits, heads[DEFAULT_BRANCH], heads[AIDER_MAIN_BRANCH])

C30_Witness ==
    \E w \in Workers :
        /\ pc[w] \in GitRootReturned
        /\ entry[w].HEAD \notin {DEFAULT_BRANCH, AIDER_MAIN_BRANCH}
        /\ heads[DEFAULT_BRANCH] # entry[w].heads[DEFAULT_BRANCH]
        /\ heads[AIDER_MAIN_BRANCH] # entry[w].heads[AIDER_MAIN_BRANCH]
        /\ HEAD = AIDER_MAIN_BRANCH

\* The error each step of git_root() raises when its command fails.
GitRootError ==
    [git_root_1 |-> "GitCommandError: checkout",
     git_root_2 |-> "GitCommandError: pull",
     git_root_3 |-> "GitCommandError: checkout",
     git_root_4 |-> "GitCommandError: pull",
     git_root_5 |-> "GitCommandError: rebase"]

\* The step in which worker w's call ends inside git_root(): the call ends
\* with the error of the failed command, having made the steps of git_root
\* up to it and (unless it is a message of create_thread) none before; the
\* command leaves the clone and origin as they are.  A call that has ended
\* makes no further step on the clone.
AbortsInGitRoot(w) ==
    /\ (pc[w] \in DOMAIN GitRootDone /\ pc'[w] = "done") =>
          LET k == GitRootDone[pc[w]]
          IN  /\ res'[w] = Exception(GitRootError[pc[w]])
              /\ Len(did[w]) >= k
              /\ LastSteps(w, k) = SubSeq(GitRootSteps, 1, k)
              /\ did'[w] = Append(did[w], GitRootSteps[k + 1])
              /\ loc[w].frame = FirstFrame(req[w].op) => Len(did[w]) = k
              /\ UNCHANGED <<commits, heads, HEAD, index, wt, dirs, origin,
                             returned, creation>>
    /\ (pc[w] = "done" /\ pc'[w] = "done") =>
          /\ UNCHANGED <<heads, HEAD, index, wt, dirs>>
          /\ did'[w] = did[w]
          /\ res'[w] = res[w]

\* C31: when a step of git_root() fails, the calling operation ends with
\* that error at once: no file write, staging, commit or push is made, and
\* nothing is rolled back or tried again.
C31_SyncFailureAborts == [][\A w \in Workers : AbortsInGitRoot(w)]_vars

\* A call ended by a failed pull, on another branch than it started on.
C31_Witness ==
    \E w \in Workers :
        /\ Ended(w)
        /\ res[w] = Exception("GitCommandError: pull")
        /\ did[w] = <<"checkout", "pull">>
        /\ HEAD # entry[w].HEAD
        /\ HEAD = DEFAULT_BRANCH

\* The paths on which commit c differs from its parent.
Changed(c) ==
    LET new == Tree(c)
        old == Tree(commits[c].parent)
    IN  {p \in DOMAIN new \cup DOMAIN old : Get(new, p) # Get(old, p)}

\* Worker w's create_message has made its commit.
MessageCommitted(w) ==
    \/ pc[w] = "cm_push"
    \/ Ended(w) /\ req[w].op = "create_message" /\ loc[w].commit # 0

\* C32: the commit a create_message call makes differs from its parent on
\* one path, the history file of the call's thread, whatever earlier calls,
\* failed ones among them, have left in the working tree and the index.
C32_MessageCommitOnePath ==
    \A w \in Workers :
        MessageCommitted(w) =>
            Changed(loc[w].commit) = {HistFile(msg[w].thread_id)}

\* A message was committed in a clone in which an earlier create_assistant
\* has left its directory and its registry file.
C32_Witness ==
    \E w \in Workers :
        /\ Ended(w)
        /\ req[w].op = "create_message"
        /\ res[w].kind = "ok"
        /\ entry[w].dirs # {}
        /\ SettingsFile \in DOMAIN entry[w].wt
        /\ Get(entry[w].wt, SettingsFile) # Get(Tree(entry[w].heads[entry[w].HEAD]), SettingsFile)

InvalidMessage(m) == m.metadata \/ m.role # "user"

\* C34: a create_thread call with an invalid initial message never returns
\* a thread, and when it ends with the refusal of the message it leaves
\* nothing of itself: no branch that was not there, no creation commit, no
\* message commit, nothing of it on origin.
C34_InitialMessagesAllOrNothing ==
    \A w \in Workers :
        (/\ Ended(w)
         /\ req[w].op = "create_thread"
         /\ \E i \in 1..Len(req[w].messages) : InvalidMessage(req[w].messages[i])
         /\ res[w].kind \in {"ok", "http"})
        => /\ res[w].kind # "ok"
           /\ DOMAIN heads = DOMAIN entry[w].heads
           /\ OwnCreation(w) = {}
           /\ loc[w].commit = 0
           /\ \A b \in DOMAIN origin :
                 b \in DOMAIN entry[w].origin \/ b = DEFAULT_BRANCH

\* C35: a create_thread call whose metadata.name is the empty string makes
\* no repository step and ends with the 417 validation error; no branch
\* "aider/" and no history file with the empty name comes to be.
C35_EmptyThreadNameRefused ==
    \A w \in Workers :
        (/\ req[w].op = "create_thread"
         /\ req[w].shape = "named"
         /\ req[w].name = <<>>)
        => /\ did[w] = <<>>
           /\ Untouched(w)
           /\ Ended(w) => res[w].kind = "http" /\ res[w].code = 417
           /\ ThreadBranch(<<>>) \notin DOMAIN heads
           /\ HistFile(<<>>) \notin DOMAIN wt

\* C36: with the working branch named "aider", a create_thread call with a
\* valid name that no branch has yet, once git_root() has returned and
\* create_head has been called, has its branch aider/<name> beside the
\* working branch.
C36_DefaultBranchesCoexist ==
    \A w \in Workers :
        (/\ AIDER_MAIN_BRANCH = S_aider
         /\ req[w].op = "create_thread"
         /\ req[w].shape = "named"
         /\ req[w].name # <<>>
         /\ ReMatch(req[w].name)
         /\ ThreadBranch(req[w].name) \notin DOMAIN entry[w].heads
         /\ "create_head" \in Elements(did[w]))
        => /\ AIDER_MAIN_BRANCH \in DOMAIN heads
           /\ ThreadBranch(req[w].name) \in DOMAIN heads

=============================================================================
